---- MODULE Spec2Model ----
(***************************************************************************)
(* The DynamoDB table provider of lib/aws/provider/dynamodb/table.go as a  *)
(* state machine: one provider (tableProvider) driving one remote table    *)
(* through CreateTable / DescribeTable / UpdateTable / DeleteTable, one    *)
(* remote call per step, interleaved with the remote's own progress.       *)
(***************************************************************************)
EXTENDS Integers, Sequences, FiniteSets, TLC

(***************************************************************************)
(* Bounds of the model.                                                    *)
(***************************************************************************)
\* attempts of awsctx.RetryUntil (the budget used around UpdateTable)
ShortTries == 2
\* attempts of awsctx.RetryUntilLong (DeleteTable and waitForTableState)
LongTries == 3

\* limits of table.go
minTableName == 3
maxTableName == 255
minTableAttributeName == 1
maxTableAttributeName == 255
minReadCapacity == 1
minWriteCapacity == 1
maxGlobalSecondaryIndexes == 5

\* longest Attributes list handed to Check
MaxAttributes == 2
\* longest options.Dependencies handed to LumiProgramTest
MaxDependencies == 2

\* the width of the output prefix, cut from the end of programDir
\* (lumiprogram.go 54)
PrefixWidth == 30
\* longest run of differing indexes at the head of a list handed to Check
MaxVaried == 2

\* Go's string(int) conversion: code points, the surrogate range and U+FFFD
MaxRune == 1114111
SurrogateMin == 55296
SurrogateMax == 57343
RuneError == 65533
ColonRune == 58

IndexNames == {"a", "b"}

\* (read, write) capacities a table is declared with
TableCaps == { [r |-> 5, w |-> 5], [r |-> 10, w |-> 10] }

\* (read, write) capacities a global secondary index is declared with
IndexCaps == { [r |-> 1, w |-> 1], [r |-> 1, w |-> 55296],
               [r |-> 55296, w |-> 1], [r |-> 55297, w |-> 1] }

\* *[]GlobalSecondaryIndex, keyed by IndexName
IndexSets == UNION { [S -> IndexCaps] : S \in SUBSET IndexNames }

NoIndexes == [n \in {} |-> [r |-> 1, w |-> 1]]

\* dynamodb.Table: the fields the provider sends to or reads from the remote
Tables == { [rcap |-> c.r, wcap |-> c.w, gsis |-> g] : c \in TableCaps, g \in IndexSets }

NoTable == [rcap |-> 0, wcap |-> 0, gsis |-> NoIndexes]

\* resource.ID values handed to Get/Update/Delete: the ARN Create returned, or
\* a string arn.ParseResourceName cannot parse
TableArn == "arn:aws:dynamodb:table/t"
Ids == {TableArn, "not-an-arn"}


(***************************************************************************)
(* Pure helpers of table.go.                                               *)
(***************************************************************************)
\* Go's string(int(x)): the UTF-8 text of code point x, and U+FFFD for a
\* value that is no valid code point; the text is modelled by its code point
RuneOf(n) ==
    IF n < 0 \/ n > MaxRune \/ (n >= SurrogateMin /\ n <= SurrogateMax)
    THEN RuneError ELSE n

\* globalSecondaryIndexHash.HashValue: string(int(read)) + ":" + string(int(write))
HashValue(item) == << RuneOf(item.r), ColonRune, RuneOf(item.w) >>

\* HashSet.Diff of the old set against the new one, keyed by HashKey (IndexName)
DiffAdds(o, n) == (DOMAIN n) \ (DOMAIN o)
DiffDeletes(o, n) == (DOMAIN o) \ (DOMAIN n)
DiffUpdates(o, n) ==
    { k \in (DOMAIN o) \cap (DOMAIN n) : HashValue(o[k]) # HashValue(n[k]) }

\* resource.ObjectDiff.Changed as the engine computes it from old and new
ChangedFields(o, n) ==
    (IF o.rcap # n.rcap THEN {"readCapacity"} ELSE {})
    \cup (IF o.wcap # n.wcap THEN {"writeCapacity"} ELSE {})
    \cup (IF o.gsis # n.gsis THEN {"globalSecondaryIndexes"} ELSE {})

\* arn.ParseResourceName
ParseOk(i) == i = TableArn

\* awsctx.IsAWSError(err, codes...)
IsAWSError(err, codes) == err \in codes

(***************************************************************************)
(* Check (table.go 71-153).  A string is modelled by its len(); a pointer  *)
(* field is <<>> for nil and << v >> for a value; a field error is the     *)
(* field it is about and the rule it reports.                              *)
(***************************************************************************)
\* the *dynamodb.Table handed to Check
NoObj == [name |-> <<>>, rcap |-> 0, wcap |-> 0, attrs |-> <<>>, gsis |-> <<>>]

SeqsUpTo(S, n) == UNION { [1 .. k -> S] : k \in 0 .. n }

\* TableName: nil, or a name at and around the limits
CheckNames ==
    { <<>> } \cup { << l >> : l \in { minTableName - 1, minTableName,
                                      maxTableName, maxTableName + 1 } }

CheckCaps == { minReadCapacity - 1, minReadCapacity }

AttrSamples ==
    { [name |-> minTableAttributeName - 1, type |-> "X"],
      [name |-> minTableAttributeName, type |-> "S"],
      [name |-> maxTableAttributeName, type |-> ""],
      [name |-> maxTableAttributeName + 1, type |-> "B"] }

ValidIndex == [name |-> minTableName, r |-> minReadCapacity, w |-> minWriteCapacity]

IndexSamples ==
    { ValidIndex,
      [name |-> minTableName - 1, r |-> minReadCapacity - 1, w |-> minWriteCapacity],
      [name |-> maxTableName + 1, r |-> minReadCapacity, w |-> minWriteCapacity - 1],
      [name |-> maxTableName, r |-> minReadCapacity - 1, w |-> minWriteCapacity - 1] }

\* GlobalSecondaryIndexes: nil, or a list of up to MaxVaried indexes that is
\* left as it is or followed by as many valid ones as take the longest list
\* one past the limit (and the next shorter one to the limit)
CheckIndexLists ==
    { <<>> } \cup
    { << v \o [i \in 1 .. k |-> ValidIndex] >> :
        v \in SeqsUpTo(IndexSamples, MaxVaried),
        k \in { 0, maxGlobalSecondaryIndexes + 1 - MaxVaried } }

CheckInputs ==
    { [name |-> nm, rcap |-> r, wcap |-> w, attrs |-> a, gsis |-> g] :
        nm \in CheckNames, r \in CheckCaps, w \in CheckCaps,
        a \in SeqsUpTo(AttrSamples, MaxAttributes), g \in CheckIndexLists }

FieldErr(ty, field, rule) == [ty |-> ty, field |-> field, rule |-> rule]

\* 74-86
CheckTableName(obj) ==
    IF obj.name # <<>>
    THEN (IF obj.name[1] < minTableName
          THEN << FieldErr("Table", "name", "minimum length") >> ELSE <<>>)
         \o (IF obj.name[1] > maxTableName
             THEN << FieldErr("Table", "name", "maximum length") >> ELSE <<>>)
    ELSE <<>>

\* 88-97
CheckTableCapacity(obj) ==
    (IF obj.rcap < minReadCapacity
     THEN << FieldErr("Table", "readCapacity", "minimum") >> ELSE <<>>)
    \o (IF obj.wcap < minWriteCapacity
        THEN << FieldErr("Table", "writeCapacity", "minimum") >> ELSE <<>>)

\* the body of the loop over obj.Attributes (100-117)
CheckAttribute(attribute) ==
    (IF attribute.name < minTableAttributeName
     THEN << FieldErr("Attribute", "name", "minimum length") >> ELSE <<>>)
    \o (IF attribute.name > maxTableAttributeName
        THEN << FieldErr("Attribute", "name", "maximum length") >> ELSE <<>>)
    \o (IF attribute.type \in {"S", "N", "B"}
        THEN <<>> ELSE << FieldErr("Attribute", "type", "valid values") >>)

\* a loop body that does not look at the index's write capacity
CheckIndexNoWrite(gsi) ==
    (IF gsi.name < minTableName
     THEN << FieldErr("GlobalSecondaryIndex", "indexName", "minimum length") >>
     ELSE <<>>)
    \o (IF gsi.name > maxTableName
        THEN << FieldErr("GlobalSecondaryIndex", "indexName", "maximum length") >>
        ELSE <<>>)
    \o (IF gsi.r < minReadCapacity
        THEN << FieldErr("GlobalSecondaryIndex", "readCapacity", "minimum") >>
        ELSE <<>>)

\* the body of the loop over the indexes (128-148)
CheckIndex(gsi) ==
    (IF gsi.name < minTableName
     THEN << FieldErr("GlobalSecondaryIndex", "indexName", "minimum length") >>
     ELSE <<>>)
    \o (IF gsi.name > maxTableName
        THEN << FieldErr("GlobalSecondaryIndex", "indexName", "maximum length") >>
        ELSE <<>>)
    \o (IF gsi.r < minReadCapacity
        THEN << FieldErr("GlobalSecondaryIndex", "readCapacity", "minimum") >>
        ELSE <<>>)
    \o (IF gsi.w < minWriteCapacity
        THEN << FieldErr("GlobalSecondaryIndex", "writeCapacity", "minimum") >>
        ELSE <<>>)

RECURSIVE CheckAttributes(_)
\* for _, attribute := range obj.Attributes (99-118)
CheckAttributes(attributes) ==
    IF attributes = <<>> THEN <<>>
    ELSE CheckAttribute(Head(attributes)) \o CheckAttributes(Tail(attributes))

RECURSIVE CheckIndexes(_)
\* for _, gsi := range gsis (127-149)
CheckIndexes(gsis) ==
    IF gsis = <<>> THEN <<>>
    ELSE CheckIndex(Head(gsis)) \o CheckIndexes(Tail(gsis))

\* 120-150
CheckGlobalSecondaryIndexes(obj) ==
    IF obj.gsis # <<>>
    THEN (IF Len(obj.gsis[1]) > maxGlobalSecondaryIndexes
          THEN << FieldErr("Table", "globalSecondaryIndexes", "more than") >>
          ELSE <<>>)
         \o CheckIndexes(obj.gsis[1])
    ELSE <<>>

\* the failures Check returns, in the order it appends them
Check(obj) ==
    CheckTableName(obj) \o CheckTableCapacity(obj)
    \o CheckAttributes(obj.attrs) \o CheckGlobalSecondaryIndexes(obj)

(***************************************************************************)
(* The retry conditions (the closures handed to RetryUntil/RetryUntilLong) *)
(* and the retry loop.  A condition's answer is [done, err]; err = ""      *)
(* is Go's nil error.                                                      *)
(***************************************************************************)
NotFound == "ResourceNotFoundException"
InUse == "ResourceInUseException"
Validation == "ValidationException"
Internal == "InternalServerError"
RemoteErrors == {NotFound, InUse, Validation, Internal}

\* a wait that takes any table it finds for the state it waits for
WaitCondFoundDone(exist, resp) ==
    IF resp \in RemoteErrors
    THEN IF IsAWSError(resp, {NotFound})
         THEN [done |-> ~exist, err |-> ""]
         ELSE [done |-> FALSE, err |-> resp]
    ELSE [done |-> TRUE, err |-> ""]

\* a wait that probes again after an error of DescribeTable
WaitCondErrorsRetry(exist, resp) ==
    IF resp \in RemoteErrors
    THEN IF IsAWSError(resp, {NotFound})
         THEN [done |-> ~exist, err |-> ""]
         ELSE [done |-> FALSE, err |-> ""]
    ELSE IF exist /\ resp # "ACTIVE"
         THEN [done |-> FALSE, err |-> ""]
         ELSE [done |-> exist, err |-> ""]

\* a wait that takes a missing table for the state it waits for, whatever
\* `exist` says
WaitCondNotFoundDone(exist, resp) ==
    IF resp \in RemoteErrors
    THEN IF IsAWSError(resp, {NotFound})
         THEN [done |-> TRUE, err |-> ""]
         ELSE [done |-> FALSE, err |-> resp]
    ELSE IF exist /\ resp # "ACTIVE"
         THEN [done |-> FALSE, err |-> ""]
         ELSE [done |-> exist, err |-> ""]

\* the closure of waitForTableState; resp is the DescribeTable answer: an
\* error code, or the TableStatus of the table found
WaitCond(exist, resp) ==
    IF resp \in RemoteErrors
    THEN IF IsAWSError(resp, {NotFound})
         THEN [done |-> ~exist, err |-> ""]
         ELSE [done |-> FALSE, err |-> resp]
    ELSE IF exist /\ resp # "ACTIVE"
         THEN [done |-> FALSE, err |-> ""]
         ELSE [done |-> exist, err |-> ""]

\* an updateTable that returns a not-found or in-use answer like any other
UpdateCondNoRetry(resp) ==
    IF resp # "ok"
    THEN [done |-> FALSE, err |-> resp]
    ELSE [done |-> TRUE, err |-> ""]

\* an updateTable that retries after every error
UpdateCondRetryAll(resp) ==
    IF resp # "ok"
    THEN [done |-> FALSE, err |-> ""]
    ELSE [done |-> TRUE, err |-> ""]

\* the closure of updateTable; resp is the UpdateTable answer
UpdateCond(resp) ==
    IF resp # "ok"
    THEN IF IsAWSError(resp, {NotFound, InUse})
         THEN [done |-> FALSE, err |-> ""]
         ELSE [done |-> FALSE, err |-> resp]
    ELSE [done |-> TRUE, err |-> ""]

\* a Delete that calls DeleteTable again after a not-found answer
DeleteCondNotFoundRetries(resp) ==
    IF resp # "ok"
    THEN IF IsAWSError(resp, {NotFound, InUse})
         THEN [done |-> FALSE, err |-> ""]
         ELSE [done |-> FALSE, err |-> resp]
    ELSE [done |-> TRUE, err |-> ""]

\* a Delete that gives up on an in-use answer as on any other error
DeleteCondInUseFails(resp) ==
    IF resp # "ok"
    THEN IF IsAWSError(resp, {NotFound})
         THEN [done |-> TRUE, err |-> ""]
         ELSE [done |-> FALSE, err |-> resp]
    ELSE [done |-> TRUE, err |-> ""]

\* the closure of Delete; resp is the DeleteTable answer
DeleteCond(resp) ==
    IF resp # "ok"
    THEN IF IsAWSError(resp, {NotFound})
         THEN [done |-> TRUE, err |-> ""]
         ELSE IF IsAWSError(resp, {InUse})
              THEN [done |-> FALSE, err |-> ""]
              ELSE [done |-> FALSE, err |-> resp]
    ELSE [done |-> TRUE, err |-> ""]

\* one turn of the retry loop after the n-th earlier attempt: the condition's
\* error ends it at once, done ends it with success, and the last attempt of
\* the budget ends it with (false, nil)
RetryStep(n, budget, c) ==
    IF c.err # "" THEN "error"
    ELSE IF c.done THEN "success"
    ELSE IF n + 1 >= budget THEN "exhausted"
    ELSE "again"

\* a Delete and a wait that retry under RetryUntil
DeleteBudgetShort == ShortTries
WaitBudgetShort == ShortTries

\* the budget of each retry loop: updateTable uses RetryUntil, Delete and
\* waitForTableState use RetryUntilLong
UpdateBudget == ShortTries
DeleteBudget == LongTries
WaitBudget == LongTries

\* the errors the provider makes itself (fmt.Errorf / the parse error)
ErrParse == "ParseError"
ErrCouldNotUpdate == "could not be updated"
ErrCouldNotDelete == "could not be deleted"
ErrNotActive == "did not become active"
ErrNotDeleted == "did not become deleted"

\* a wait that calls the state it expected of a deleted table "absent"
TimeoutReasonAbsent(exist) == IF exist THEN "active" ELSE "absent"

\* the reason word waitForTableState picks (559-564)
TimeoutReason(exist) == IF exist THEN "active" ELSE "deleted"

\* fmt.Errorf("DynamoDB table '%v' did not become %v", name, reason), for the
\* one table of the model
DidNotBecome(reason) == "did not become " \o reason

\* the error of waitForTableState when its budget is exhausted
WaitTimeoutError(exist) == DidNotBecome(TimeoutReason(exist))

(***************************************************************************)
(* UpdateTableInput: ProvisionedThroughput (absent or one value) and the   *)
(* list GlobalSecondaryIndexUpdates of Create/Update/Delete actions.       *)
(***************************************************************************)
NoRequest == [thru |-> <<>>, gsiUpdates |-> <<>>]

\* an UpdateTableInput that carries the read capacity and no write capacity
ThroughputRequestReadOnly(n) ==
    [thru |-> << [r |-> n.rcap, w |-> 0] >>, gsiUpdates |-> <<>>]

\* table.go 354-360
ThroughputRequest(n) ==
    [thru |-> << [r |-> n.rcap, w |-> n.wcap] >>, gsiUpdates |-> <<>>]

\* table.go 394-413
CreateIndexRequest(n, k) ==
    [thru |-> <<>>,
     gsiUpdates |-> << [kind |-> "Create", idx |-> k,
                        r |-> n.gsis[k].r, w |-> n.gsis[k].w] >>]

\* table.go 422-435
UpdateIndexRequest(n, k) ==
    [thru |-> <<>>,
     gsiUpdates |-> << [kind |-> "Update", idx |-> k,
                        r |-> n.gsis[k].r, w |-> n.gsis[k].w] >>]

\* table.go 444-453
DeleteIndexRequest(k) ==
    [thru |-> <<>>,
     gsiUpdates |-> << [kind |-> "Delete", idx |-> k, r |-> 0, w |-> 0] >>]

\* the step of Update's fixed sequence a request belongs to
StepRank(rq) ==
    IF rq.gsiUpdates = <<>> THEN 0
    ELSE IF rq.gsiUpdates[1].kind = "Create" THEN 1
    ELSE IF rq.gsiUpdates[1].kind = "Update" THEN 2
    ELSE 3

(***************************************************************************)
(* The remote control plane (DynamoDB) as the provider sees it.            *)
(***************************************************************************)
VARIABLES tblStatus, tblCfg

\* one index action applied to a table
ApplyIndexAction(cfg, a) ==
    IF a.kind = "Delete"
    THEN [cfg EXCEPT !.gsis = [k \in (DOMAIN cfg.gsis) \ {a.idx} |-> cfg.gsis[k]]]
    ELSE [cfg EXCEPT !.gsis = [k \in (DOMAIN cfg.gsis) \cup {a.idx} |->
                                 IF k = a.idx THEN [r |-> a.r, w |-> a.w]
                                 ELSE cfg.gsis[k]]]

\* an accepted UpdateTable request applied to a table
ApplyUpdate(cfg, rq) ==
    LET c1 == IF rq.thru = <<>> THEN cfg
              ELSE [cfg EXCEPT !.rcap = rq.thru[1].r, !.wcap = rq.thru[1].w]
    IN  IF rq.gsiUpdates = <<>> THEN c1 ELSE ApplyIndexAction(c1, rq.gsiUpdates[1])

\* the requests UpdateTable refuses with a ValidationException: more than one
\* operation at once, a throughput equal to the current one, creating an index
\* that exists, updating or deleting one that does not, an unchanged capacity
RemoteRejects(cfg, rq) ==
    \/ Len(rq.thru) + Len(rq.gsiUpdates) # 1
    \/ /\ rq.thru # <<>>
       /\ rq.thru[1].r = cfg.rcap /\ rq.thru[1].w = cfg.wcap
    \/ /\ rq.gsiUpdates # <<>>
       /\ LET a == rq.gsiUpdates[1]
          IN  \/ a.kind = "Create" /\ a.idx \in DOMAIN cfg.gsis
              \/ a.kind = "Delete" /\ a.idx \notin DOMAIN cfg.gsis
              \/ a.kind = "Update" /\ a.idx \notin DOMAIN cfg.gsis
              \/ a.kind = "Update" /\ a.idx \in DOMAIN cfg.gsis
                 /\ cfg.gsis[a.idx] = [r |-> a.r, w |-> a.w]

\* answers of CreateTable
CreateTableResponses ==
    IF tblStatus = "ABSENT" THEN {"ok", Internal} ELSE {InUse, Internal}

\* answers of DescribeTable: an error code or the TableStatus; a table just
\* created may not be visible yet
DescribeTableResponses ==
    IF tblStatus = "ABSENT" THEN {NotFound, Internal}
    ELSE IF tblStatus = "CREATING" THEN {NotFound, "CREATING", Internal}
    ELSE {tblStatus, Internal}

\* answers of UpdateTable
UpdateTableResponses(rq) ==
    IF tblStatus = "ABSENT" THEN {NotFound, Internal}
    ELSE IF tblStatus # "ACTIVE" THEN {InUse, Internal}
    ELSE IF RemoteRejects(tblCfg, rq) THEN {Validation, Internal}
    ELSE {"ok", Internal}

\* answers of DeleteTable
DeleteTableResponses ==
    IF tblStatus = "ABSENT" THEN {NotFound, Internal}
    ELSE IF tblStatus # "ACTIVE" THEN {InUse, Internal}
    ELSE {"ok", Internal}

(***************************************************************************)
(* The provider: the operation in progress and its position.               *)
(***************************************************************************)
VARIABLES
    op,          \* "idle" or the operation running: Create, Get, Update, Delete
    pc,          \* position inside the operation
    id,          \* the resource.ID argument
    old,         \* Update's old state
    new,         \* Update's new state; Create's obj
    tries,       \* attempts made so far by the retry loop in progress
    waitFor,     \* which waitForTableState call is running
    req,         \* the UpdateTableInput of the updateTable call in progress
    pendThru,    \* the throughput step is still to be done
    pendAdds,    \* d.Adds() not yet processed
    pendUpds,    \* d.Updates() not yet processed
    pendDels,    \* d.Deletes() not yet processed
    arn,         \* the TableArn of the CreateTable response
    ret          \* what the operation returned

(***************************************************************************)
(* History of the invocation in progress and of the ones before it.        *)
(***************************************************************************)
VARIABLES
    created,     \* this invocation's CreateTable call was accepted
    nCreate,     \* CreateTable calls of this invocation
    nUpdate,     \* UpdateTable calls of this invocation
    delLog,      \* DeleteTable answers of this invocation, in order
    accepted,    \* the UpdateTable requests the remote accepted, in order
    descLog,     \* DescribeTable answers of this Create, Get or Delete
    activeSeen,  \* a describe after the last accepted UpdateTable saw ACTIVE
    last,        \* the latest remote call of this invocation and its answer
    cfg0,        \* the remote table when this Update began
    deleted,     \* the last Delete succeeded and no Create was invoked since
    failedUpd,   \* the (old, new) of an Update that failed part-way, if any
    reinvoked,   \* this invocation repeats the Update that failed part-way
    cancelled,   \* the caller cancelled the context.Context of this invocation
    chkObj,      \* Check's obj argument
    failures     \* the []error Check returned

(***************************************************************************)
(* LumiProgramTest (pkg/testing/integration/lumiprogram.go): the test in   *)
(* progress, its arguments and what it has run.                            *)
(***************************************************************************)
VARIABLES
    tpc,         \* position inside LumiProgramTest, "idle" when none runs
    programDir,  \* len(programDir)
    options,     \* LumiProgramTestOptions: Dependencies and Config
    onPath,      \* the binaries exec.LookPath finds
    pendDeps,    \* options.Dependencies not yet linked
    pendConfig,  \* the keys of options.Config not yet set
    cmdLog,      \* the args of the commands run so far, in order
    tFailed,     \* t.Failed(): an assertion failed, or the test panicked
    exitFailed   \* some command returned a failure exit code

testVars == << tpc, programDir, options, onPath, pendDeps, pendConfig, cmdLog,
               tFailed, exitFailed >>

providerVars == << tblStatus, tblCfg, op, pc, id, old, new, tries, waitFor, req,
                   pendThru, pendAdds, pendUpds, pendDels, arn, ret,
                   created, nCreate, nUpdate, delLog, accepted, descLog,
                   activeSeen, last, cfg0, deleted, failedUpd, reinvoked,
                   cancelled, chkObj, failures >>

vars == << providerVars, testVars >>

remoteVars == << tblStatus, tblCfg >>
argVars == << id, old, new >>
planVars == << pendThru, pendAdds, pendUpds, pendDels >>
pastVars == << cfg0, deleted, failedUpd, reinvoked, cancelled, chkObj, failures,
               testVars >>

\* LumiProgramTestOptions{}
NoOptions == [Dependencies |-> <<>>, Config |-> << >>]

NoCall == [api |-> "", resp |-> ""]

NoResult == [err |-> "", id |-> "", found |-> FALSE, tab |-> NoTable]

\* `return err` / `return "", err` / `return nil, err`
ErrorResult(e) == [err |-> e, id |-> "", found |-> FALSE, tab |-> NoTable]

\* waitForTableState(name, exist): exist is false only in Delete
WaitExist == waitFor # "delete"

Init ==
    /\ \/ tblStatus = "ABSENT" /\ tblCfg = NoTable
       \/ tblStatus = "ACTIVE" /\ tblCfg \in Tables
    /\ op = "idle" /\ pc = "idle"
    /\ id = "" /\ old = NoTable /\ new = NoTable
    /\ tries = 0 /\ waitFor = "none" /\ req = NoRequest
    /\ pendThru = FALSE /\ pendAdds = {} /\ pendUpds = {} /\ pendDels = {}
    /\ arn = "" /\ ret = NoResult
    /\ created = FALSE /\ nCreate = 0 /\ nUpdate = 0 /\ delLog = <<>>
    /\ accepted = <<>> /\ descLog = <<>> /\ activeSeen = FALSE
    /\ last = NoCall /\ cfg0 = NoTable
    /\ deleted = FALSE /\ failedUpd = <<>> /\ reinvoked = FALSE
    /\ cancelled = FALSE /\ chkObj = NoObj /\ failures = <<>>
    /\ tpc = "idle" /\ programDir = 0 /\ options = NoOptions /\ onPath = {}
    /\ pendDeps = <<>> /\ pendConfig = {} /\ cmdLog = <<>>
    /\ tFailed = FALSE /\ exitFailed = FALSE

(***************************************************************************)
(* The remote's own progress: a table being created or updated becomes     *)
(* ACTIVE, a table being deleted disappears.                               *)
(***************************************************************************)
RemoteProgress ==
    /\ tblStatus \in {"CREATING", "UPDATING", "DELETING"}
    /\ tblStatus' = IF tblStatus = "DELETING" THEN "ABSENT" ELSE "ACTIVE"
    /\ tblCfg' = IF tblStatus = "DELETING" THEN NoTable ELSE tblCfg
    /\ UNCHANGED << op, pc, id, old, new, tries, waitFor, req,
                    pendThru, pendAdds, pendUpds, pendDels, arn, ret,
                    created, nCreate, nUpdate, delLog, accepted, descLog,
                    activeSeen, last, pastVars >>

(***************************************************************************)
(* The caller (the engine) invokes one operation at a time.                *)
(***************************************************************************)
Begin(o, p) ==
    /\ op = "idle"
    /\ op' = o /\ pc' = p
    /\ tries' = 0 /\ waitFor' = "none" /\ req' = NoRequest
    /\ UNCHANGED planVars
    /\ arn' = "" /\ ret' = NoResult
    /\ created' = FALSE /\ nCreate' = 0 /\ nUpdate' = 0 /\ delLog' = <<>>
    /\ accepted' = <<>> /\ descLog' = <<>> /\ activeSeen' = FALSE
    /\ last' = NoCall
    /\ cfg0' = IF o = "Update" THEN tblCfg ELSE NoTable
    /\ cancelled' = FALSE /\ failures' = <<>>
    /\ UNCHANGED << remoteVars, testVars >>

InvokeCreate ==
    /\ Begin("Create", "create_call")
    /\ \E t \in Tables : new' = t
    /\ id' = "" /\ old' = NoTable
    /\ deleted' = FALSE /\ failedUpd' = <<>> /\ reinvoked' = FALSE
    /\ chkObj' = NoObj

InvokeGet ==
    /\ Begin("Get", "get_call")
    /\ \E i \in Ids : id' = i
    /\ old' = NoTable /\ new' = NoTable
    /\ UNCHANGED deleted
    /\ failedUpd' = <<>> /\ reinvoked' = FALSE
    /\ chkObj' = NoObj

\* Update(id, old, new, diff) with old the state the table was left in by the
\* operations before
InvokeUpdate ==
    /\ tblStatus # "ABSENT"
    /\ Begin("Update", "upd_begin")
    /\ \E i \in Ids : id' = i
    /\ old' = tblCfg
    /\ \E t \in Tables : new' = t
    /\ UNCHANGED deleted
    /\ failedUpd' = <<>> /\ reinvoked' = FALSE
    /\ chkObj' = NoObj

\* the same Update again after it failed part-way
ReinvokeUpdate ==
    /\ failedUpd # <<>>
    /\ id' = TableArn
    /\ old' = failedUpd[1].old
    /\ new' = failedUpd[1].new
    /\ Begin("Update", "upd_begin")
    /\ UNCHANGED deleted
    /\ failedUpd' = <<>> /\ reinvoked' = TRUE
    /\ chkObj' = NoObj

InvokeDelete ==
    /\ Begin("Delete", "del_begin")
    /\ \E i \in Ids : id' = i
    /\ old' = NoTable /\ new' = NoTable
    /\ UNCHANGED deleted
    /\ failedUpd' = <<>> /\ reinvoked' = FALSE
    /\ chkObj' = NoObj

\* the operation returns `r` to its caller
Finish(r) ==
    /\ pc' = "done"
    /\ ret' = r
    /\ tries' = 0

\* the caller takes the result; the next operation may be invoked
Return ==
    /\ pc = "done"
    /\ op' = "idle" /\ pc' = "idle"
    /\ id' = "" /\ old' = NoTable /\ new' = NoTable
    /\ tries' = 0 /\ waitFor' = "none" /\ req' = NoRequest
    /\ pendThru' = FALSE /\ pendAdds' = {} /\ pendUpds' = {} /\ pendDels' = {}
    /\ arn' = "" /\ ret' = NoResult
    /\ created' = FALSE /\ nCreate' = 0 /\ nUpdate' = 0 /\ delLog' = <<>>
    /\ accepted' = <<>> /\ descLog' = <<>> /\ activeSeen' = FALSE
    /\ last' = NoCall /\ cfg0' = NoTable
    /\ deleted' = IF op = "Delete" /\ ret.err = "" THEN TRUE
                  ELSE IF op = "Create" THEN FALSE ELSE deleted
    /\ failedUpd' = IF op = "Update" /\ ret.err # "" /\ accepted # <<>>
                    THEN << [old |-> old, new |-> new] >> ELSE <<>>
    /\ reinvoked' = FALSE
    /\ cancelled' = FALSE /\ chkObj' = NoObj /\ failures' = <<>>
    /\ UNCHANGED << remoteVars, testVars >>

(***************************************************************************)
(* waitForTableState (table.go 531-568), one DescribeTable call per step,  *)
(* and what its caller does when it returns.                               *)
(***************************************************************************)
StartWait(w) ==
    /\ pc' = "wait" /\ waitFor' = w /\ tries' = 0 /\ descLog' = <<>>

\* the statement after a successful waitForTableState: Create returns the
\* ARN (243), updateTable returns nil to Update's sequence (525-528), Update
\* (459-463) and Delete (501) return nil
AfterWait ==
    IF waitFor = "step"
    THEN pc' = "upd_next" /\ tries' = 0 /\ UNCHANGED ret
    ELSE IF waitFor = "create"
         THEN Finish([NoResult EXCEPT !.id = arn])
         ELSE Finish(NoResult)

DescribeWait ==
    /\ pc = "wait"
    /\ \E resp \in DescribeTableResponses :
         LET c == WaitCond(WaitExist, resp)
             o == RetryStep(tries, WaitBudget, c)
         IN  /\ descLog' = IF op = "Update" THEN <<>> ELSE Append(descLog, resp)
             /\ last' = [api |-> "DescribeTable", resp |-> resp]
             /\ activeSeen' = (activeSeen \/ resp = "ACTIVE")
             /\ CASE o = "again" -> tries' = tries + 1 /\ UNCHANGED << pc, ret >>
                  [] o = "error" -> Finish(ErrorResult(c.err))
                  [] o = "exhausted" -> Finish(ErrorResult(WaitTimeoutError(WaitExist)))
                  [] o = "success" -> AfterWait
    /\ UNCHANGED << remoteVars, argVars, planVars, pastVars, op, waitFor, req,
                    arn, created, nCreate, nUpdate, delLog, accepted >>

(***************************************************************************)
(* Create (table.go 157-244).                                              *)
(***************************************************************************)
\* a Create that calls CreateTable again after an error
AfterCreateErrorRetry(resp) == UNCHANGED << pc, ret, tries >>

\* `return "", err` when CreateTable failed (229-231)
AfterCreateError(resp) == Finish(ErrorResult(resp))

CreateTableCall ==
    /\ pc = "create_call"
    /\ nCreate' = nCreate + 1
    /\ \E resp \in CreateTableResponses :
         /\ last' = [api |-> "CreateTable", resp |-> resp]
         /\ IF resp # "ok"
            THEN /\ AfterCreateError(resp)
                 /\ UNCHANGED << remoteVars, arn, created, waitFor, descLog >>
            ELSE /\ tblStatus' = "CREATING"
                 /\ tblCfg' = new
                 /\ arn' = TableArn
                 /\ created' = TRUE
                 /\ StartWait("create")
                 /\ UNCHANGED ret
    /\ UNCHANGED << argVars, planVars, pastVars, op, req, nUpdate, delLog,
                    accepted, activeSeen >>

(***************************************************************************)
(* Get (table.go 247-302).                                                 *)
(***************************************************************************)
GetCall ==
    /\ pc = "get_call"
    /\ IF ~ParseOk(id)
       THEN /\ IF IsAWSError(ErrParse, {NotFound})
               THEN Finish(NoResult)
               ELSE Finish(ErrorResult(ErrParse))
            /\ UNCHANGED << descLog, last >>
       ELSE \E resp \in DescribeTableResponses :
              /\ descLog' = << resp >>
              /\ last' = [api |-> "DescribeTable", resp |-> resp]
              /\ IF resp \in RemoteErrors
                 THEN Finish(ErrorResult(resp))
                 ELSE Finish([NoResult EXCEPT !.found = TRUE, !.tab = tblCfg])
    /\ UNCHANGED << remoteVars, argVars, planVars, pastVars, op, waitFor,
                    req, arn, created, nCreate, nUpdate, delLog, accepted,
                    activeSeen >>

(***************************************************************************)
(* Update (table.go 329-464) and updateTable (504-529).                    *)
(***************************************************************************)
\* diff.Changed(field)
Changed(field) == field \in ChangedFields(old, new)

\* the diff of the new index set against the old one
GlobalSecondaryIndexDiffSwapped(o, n) ==
    [adds |-> DiffAdds(n.gsis, o.gsis),
     updates |-> DiffUpdates(n.gsis, o.gsis),
     deletes |-> DiffDeletes(n.gsis, o.gsis)]

\* d := oldGlobalSecondaryIndexes.Diff(newGlobalSecondaryIndexes) (368-370)
\* and its d.Adds(), d.Updates(), d.Deletes()
GlobalSecondaryIndexDiff(o, n) ==
    [adds |-> DiffAdds(o.gsis, n.gsis),
     updates |-> DiffUpdates(o.gsis, n.gsis),
     deletes |-> DiffDeletes(o.gsis, n.gsis)]

\* 331-334 and the work list of 352, 367-372, 419, 441
UpdateBegin ==
    /\ pc = "upd_begin"
    /\ IF ~ParseOk(id)
       THEN /\ Finish(ErrorResult(ErrParse))
            /\ UNCHANGED planVars
       ELSE /\ pc' = "upd_next" /\ tries' = 0
            /\ pendThru' = (Changed("readCapacity") \/ Changed("writeCapacity"))
            /\ pendAdds' = IF Changed("globalSecondaryIndexes")
                           THEN GlobalSecondaryIndexDiff(old, new).adds ELSE {}
            /\ pendUpds' = IF Changed("globalSecondaryIndexes")
                           THEN GlobalSecondaryIndexDiff(old, new).updates ELSE {}
            /\ pendDels' = IF Changed("globalSecondaryIndexes")
                           THEN GlobalSecondaryIndexDiff(old, new).deletes ELSE {}
            /\ UNCHANGED ret
    /\ UNCHANGED << remoteVars, argVars, pastVars, op, waitFor, req, arn,
                    created, nCreate, nUpdate, delLog, accepted, descLog,
                    activeSeen, last >>

\* an Update that removes indexes before it adds any
NextStepDeletesFirst(thru, adds, upds, dels) ==
    IF thru THEN "throughput"
    ELSE IF dels # {} THEN "Delete"
    ELSE IF adds # {} THEN "Create"
    ELSE IF upds # {} THEN "Update"
    ELSE IF "globalSecondaryIndexes" \in ChangedFields(old, new) THEN "wait"
    ELSE "return"

\* the statement order of Update: throughput (352), the loop over Adds (372),
\* over Updates (419), over Deletes (441), the closing wait (459), return (463)
NextStep(thru, adds, upds, dels) ==
    IF thru THEN "throughput"
    ELSE IF adds # {} THEN "Create"
    ELSE IF upds # {} THEN "Update"
    ELSE IF dels # {} THEN "Delete"
    ELSE IF Changed("globalSecondaryIndexes") THEN "wait"
    ELSE "return"

\* the UpdateTableInput each loop body builds, one index per request
RequestFor(step, k) ==
    IF step = "throughput" THEN ThroughputRequest(new)
    ELSE IF step = "Create" THEN CreateIndexRequest(new, k)
    ELSE IF step = "Update" THEN UpdateIndexRequest(new, k)
    ELSE DeleteIndexRequest(k)

UpdateNext ==
    /\ pc = "upd_next"
    /\ LET step == NextStep(pendThru, pendAdds, pendUpds, pendDels)
       IN  CASE step = "throughput" ->
                  /\ req' = RequestFor(step, "")
                  /\ pendThru' = FALSE
                  /\ pc' = "upd_call" /\ tries' = 0
                  /\ UNCHANGED << pendAdds, pendUpds, pendDels, ret, waitFor, descLog >>
             [] step = "Create" ->
                  \E k \in pendAdds :
                    /\ req' = RequestFor(step, k)
                    /\ pendAdds' = pendAdds \ {k}
                    /\ pc' = "upd_call" /\ tries' = 0
                    /\ UNCHANGED << pendThru, pendUpds, pendDels, ret, waitFor, descLog >>
             [] step = "Update" ->
                  \E k \in pendUpds :
                    /\ req' = RequestFor(step, k)
                    /\ pendUpds' = pendUpds \ {k}
                    /\ pc' = "upd_call" /\ tries' = 0
                    /\ UNCHANGED << pendThru, pendAdds, pendDels, ret, waitFor, descLog >>
             [] step = "Delete" ->
                  \E k \in pendDels :
                    /\ req' = RequestFor(step, k)
                    /\ pendDels' = pendDels \ {k}
                    /\ pc' = "upd_call" /\ tries' = 0
                    /\ UNCHANGED << pendThru, pendAdds, pendUpds, ret, waitFor, descLog >>
             [] step = "wait" ->
                  /\ StartWait("final")
                  /\ UNCHANGED << planVars, req, ret >>
             [] step = "return" ->
                  /\ Finish(NoResult)
                  /\ UNCHANGED << planVars, req, waitFor, descLog >>
    /\ UNCHANGED << remoteVars, argVars, pastVars, op, arn, created, nCreate,
                    nUpdate, delLog, accepted, activeSeen, last >>

\* an updateTable that returns without waiting for the table to be ACTIVE
AfterUpdateAcceptedNoWait ==
    /\ pc' = "upd_next" /\ tries' = 0 /\ UNCHANGED << waitFor, descLog >>

\* what updateTable does once RetryUntil returned success: it waits for the
\* table to be ACTIVE (525)
AfterUpdateAccepted == StartWait("step")

\* one attempt of updateTable's retry loop
UpdateTableCall ==
    /\ pc = "upd_call"
    /\ nUpdate' = nUpdate + 1
    /\ \E resp \in UpdateTableResponses(req) :
         LET c == UpdateCond(resp)
             o == RetryStep(tries, UpdateBudget, c)
         IN  /\ last' = [api |-> "UpdateTable", resp |-> resp]
             /\ IF resp = "ok"
                THEN /\ tblCfg' = ApplyUpdate(tblCfg, req)
                     /\ tblStatus' = "UPDATING"
                     /\ accepted' = Append(accepted, req)
                     /\ activeSeen' = FALSE
                ELSE UNCHANGED << remoteVars, accepted, activeSeen >>
             /\ CASE o = "again" ->
                       /\ tries' = tries + 1
                       /\ UNCHANGED << pc, ret, waitFor, descLog >>
                  [] o = "error" ->
                       /\ Finish(ErrorResult(c.err))
                       /\ UNCHANGED << waitFor, descLog >>
                  [] o = "exhausted" ->
                       /\ Finish(ErrorResult(ErrCouldNotUpdate))
                       /\ UNCHANGED << waitFor, descLog >>
                  [] o = "success" ->
                       /\ AfterUpdateAccepted
                       /\ UNCHANGED ret
    /\ UNCHANGED << argVars, planVars, pastVars, op, req, arn, created, nCreate,
                    delLog >>

(***************************************************************************)
(* Delete (table.go 467-502).                                              *)
(***************************************************************************)
DeleteBegin ==
    /\ pc = "del_begin"
    /\ IF ~ParseOk(id)
       THEN Finish(ErrorResult(ErrParse))
       ELSE pc' = "del_call" /\ tries' = 0 /\ UNCHANGED ret
    /\ UNCHANGED << remoteVars, argVars, planVars, pastVars, op, waitFor,
                    req, arn, created, nCreate, nUpdate, delLog, accepted,
                    descLog, activeSeen, last >>

\* one attempt of Delete's retry loop
DeleteTableCall ==
    /\ pc = "del_call"
    /\ \E resp \in DeleteTableResponses :
         LET c == DeleteCond(resp)
             o == RetryStep(tries, DeleteBudget, c)
         IN  /\ last' = [api |-> "DeleteTable", resp |-> resp]
             /\ delLog' = Append(delLog, resp)
             /\ IF resp = "ok"
                THEN tblStatus' = "DELETING" /\ UNCHANGED tblCfg
                ELSE UNCHANGED remoteVars
             /\ CASE o = "again" ->
                       /\ tries' = tries + 1
                       /\ UNCHANGED << pc, ret, waitFor, descLog >>
                  [] o = "error" ->
                       /\ Finish(ErrorResult(c.err))
                       /\ UNCHANGED << waitFor, descLog >>
                  [] o = "exhausted" ->
                       /\ Finish(ErrorResult(ErrCouldNotDelete))
                       /\ UNCHANGED << waitFor, descLog >>
                  [] o = "success" ->
                       /\ StartWait("delete")
                       /\ UNCHANGED ret
    /\ UNCHANGED << argVars, planVars, pastVars, op, req, arn, created, nCreate,
                    nUpdate, accepted, activeSeen >>

(***************************************************************************)
(* Check as an operation of the provider: it computes the failures and     *)
(* returns them with a nil error.                                          *)
(***************************************************************************)
InvokeCheck ==
    /\ Begin("Check", "check_call")
    /\ \E o \in CheckInputs : chkObj' = o
    /\ id' = "" /\ old' = NoTable /\ new' = NoTable
    /\ UNCHANGED deleted
    /\ failedUpd' = <<>> /\ reinvoked' = FALSE

CheckCall ==
    /\ pc = "check_call"
    /\ failures' = Check(chkObj)
    /\ Finish(NoResult)
    /\ UNCHANGED << remoteVars, argVars, planVars, op, waitFor, req, arn,
                    created, nCreate, nUpdate, delLog, accepted, descLog,
                    activeSeen, last, cfg0, deleted, failedUpd, reinvoked,
                    cancelled, chkObj, testVars >>

(***************************************************************************)
(* The caller cancels the context.Context it handed to the operation in    *)
(* progress.  No statement of Create, Update or Delete reads that context. *)
(***************************************************************************)
CancelContext ==
    /\ op \in {"Create", "Update", "Delete"}
    /\ pc # "done"
    /\ ~cancelled
    /\ cancelled' = TRUE
    /\ UNCHANGED << remoteVars, argVars, planVars, op, pc, tries, waitFor, req,
                    arn, ret, created, nCreate, nUpdate, delLog, accepted,
                    descLog, activeSeen, last, cfg0, deleted, failedUpd,
                    reinvoked, chkObj, failures, testVars >>

(***************************************************************************)
(* LumiProgramTest (lumiprogram.go 39-77) and runCmd (79-92).  A command   *)
(* is its args; the binary found by exec.LookPath is modelled by its name. *)
(***************************************************************************)
Binaries == {"lumijs", "lumi", "yarn"}

Packages == {"@lumi/lumi", "@lumi/aws"}

ConfigKeys == {"aws:config:region", "aws:config:profile"}

ConfigValues == {"us-east-2"}

\* the LumiProgramTestOptions a test is run with
TestOptions ==
    { [Dependencies |-> d, Config |-> c] :
        d \in SeqsUpTo(Packages, MaxDependencies),
        c \in UNION { [K -> ConfigValues] : K \in SUBSET ConfigKeys } }

\* the commands outside the two loops, by the statement that runs them
FixedCmd(at) ==
    CASE at = "lumijs" -> << "lumijs", "--verbose" >>
      [] at = "env_init" -> << "lumi", "env", "init", "integrationtesting" >>
      [] at = "plan" -> << "lumi", "plan" >>
      [] at = "deploy" -> << "lumi", "deploy" >>
      [] at = "plan_again" -> << "lumi", "plan" >>
      [] at = "deploy_again" -> << "lumi", "deploy" >>
      [] at = "destroy" -> << "lumi", "destroy", "--yes" >>
      [] at = "env_rm" -> << "lumi", "env", "rm", "--yes", "integrationtesting" >>

FixedSteps == {"lumijs", "env_init", "plan", "deploy", "plan_again",
               "deploy_again", "destroy", "env_rm"}

\* where the loop over options.Dependencies goes on (63-66)
AfterLink(deps) == IF deps = <<>> THEN "lumijs" ELSE "link"

\* where the loop over options.Config goes on (68-71)
AfterConfig(keys) == IF keys = {} THEN "plan" ELSE "config"

\* the statement after each command outside the loops (66-77)
AfterFixed(at) ==
    CASE at = "lumijs" -> "env_init"
      [] at = "env_init" -> AfterConfig(pendConfig)
      [] at = "plan" -> "deploy"
      [] at = "deploy" -> "plan_again"
      [] at = "plan_again" -> "deploy_again"
      [] at = "deploy_again" -> "destroy"
      [] at = "destroy" -> "env_rm"
      [] at = "env_rm" -> "end"

\* a runCmd that does not look at the error of cmd.Run
AssertNoErrorIgnored(err) == UNCHANGED tFailed

\* assert.NoError(t, err, ...) of runCmd (91): it marks the test failed and
\* lets it go on
AssertNoError(err) == tFailed' = (tFailed \/ err)

\* runCmd(t, args, ...): the command runs and returns some exit code
RunCmd(args) ==
    \E err \in BOOLEAN :
      /\ cmdLog' = Append(cmdLog, args)
      /\ exitFailed' = (exitFailed \/ err)
      /\ AssertNoError(err)

StartTest ==
    /\ tpc = "idle"
    /\ tpc' = "lookpath"
    /\ \E o \in TestOptions : options' = o
    /\ \E b \in SUBSET Binaries : onPath' = b
    /\ \E n \in {PrefixWidth - 1, PrefixWidth} : programDir' = n
    /\ pendDeps' = <<>> /\ pendConfig' = {} /\ cmdLog' = <<>>
    /\ tFailed' = FALSE /\ exitFailed' = FALSE
    /\ UNCHANGED providerVars

\* the three exec.LookPath calls (41-52): the test fails and returns at the
\* first binary that is missing
LookPaths ==
    /\ tpc = "lookpath"
    /\ IF Binaries \subseteq onPath
       THEN tpc' = "prefix" /\ UNCHANGED tFailed
       ELSE tpc' = "end" /\ tFailed' = TRUE
    /\ UNCHANGED << providerVars, programDir, options, onPath, pendDeps,
                    pendConfig, cmdLog, exitFailed >>

\* programDir[len(programDir)-30:] (54): a slice out of range panics
MakePrefix ==
    /\ tpc = "prefix"
    /\ IF programDir < PrefixWidth
       THEN /\ tpc' = "end" /\ tFailed' = TRUE
            /\ UNCHANGED << pendDeps, pendConfig >>
       ELSE /\ tpc' = AfterLink(options.Dependencies)
            /\ pendDeps' = options.Dependencies
            /\ pendConfig' = DOMAIN options.Config
            /\ UNCHANGED tFailed
    /\ UNCHANGED << providerVars, programDir, options, onPath, cmdLog,
                    exitFailed >>

\* one turn of the loop over options.Dependencies (63-65)
LinkDependency ==
    /\ tpc = "link"
    /\ RunCmd(<< "yarn", "link", Head(pendDeps) >>)
    /\ pendDeps' = Tail(pendDeps)
    /\ tpc' = AfterLink(Tail(pendDeps))
    /\ UNCHANGED << providerVars, programDir, options, onPath, pendConfig >>

\* one turn of the loop over the map options.Config (68-70), whose order Go
\* leaves open
ConfigEntry ==
    /\ tpc = "config"
    /\ \E key \in pendConfig :
         /\ RunCmd(<< "lumi", "config", key, options.Config[key] >>)
         /\ pendConfig' = pendConfig \ {key}
         /\ tpc' = AfterConfig(pendConfig \ {key})
    /\ UNCHANGED << providerVars, programDir, options, onPath, pendDeps >>

\* a command outside the loops (66, 67, 71-76)
RunFixed ==
    /\ tpc \in FixedSteps
    /\ RunCmd(FixedCmd(tpc))
    /\ tpc' = AfterFixed(tpc)
    /\ UNCHANGED << providerVars, programDir, options, onPath, pendDeps,
                    pendConfig >>

\* LumiProgramTest has returned; the next test may start
TestEnd ==
    /\ tpc = "end"
    /\ tpc' = "idle" /\ programDir' = 0 /\ options' = NoOptions /\ onPath' = {}
    /\ pendDeps' = <<>> /\ pendConfig' = {} /\ cmdLog' = <<>>
    /\ tFailed' = FALSE /\ exitFailed' = FALSE
    /\ UNCHANGED providerVars

(***************************************************************************)
(* The specification.                                                      *)
(***************************************************************************)
Next ==
    \/ RemoteProgress
    \/ InvokeCreate
    \/ InvokeGet
    \/ InvokeUpdate
    \/ ReinvokeUpdate
    \/ InvokeDelete
    \/ CreateTableCall
    \/ DescribeWait
    \/ GetCall
    \/ UpdateBegin
    \/ UpdateNext
    \/ UpdateTableCall
    \/ DeleteBegin
    \/ DeleteTableCall
    \/ Return

Spec == Init /\ [][Next]_vars

\* the provider with a caller that may cancel an operation in progress
NextCancel == Next \/ CancelContext

SpecCancel == Init /\ [][NextCancel]_vars

\* Check alone, on every input of CheckInputs
InitCheck == Init /\ tblStatus = "ABSENT"

NextCheck == InvokeCheck \/ CheckCall \/ Return

SpecCheck == InitCheck /\ [][NextCheck]_vars

\* LumiProgramTest alone, on every option of TestOptions
InitTest == Init /\ tblStatus = "ABSENT"

NextTest ==
    \/ StartTest
    \/ LookPaths
    \/ MakePrefix
    \/ LinkDependency
    \/ ConfigEntry
    \/ RunFixed
    \/ TestEnd

SpecTest == InitTest /\ [][NextTest]_vars

(***************************************************************************)
(* Helpers of the properties.                                              *)
(***************************************************************************)
RECURSIVE ApplyAll(_, _)
\* the table after the requests of `rqs` were applied in order
ApplyAll(cfg, rqs) ==
    IF rqs = <<>> THEN cfg
    ELSE ApplyAll(ApplyUpdate(cfg, Head(rqs)), Tail(rqs))

\* the index names the accepted requests of one kind were about
AcceptedNames(kind) ==
    { accepted[i].gsiUpdates[1].idx :
        i \in { j \in 1 .. Len(accepted) :
                  /\ accepted[j].gsiUpdates # <<>>
                  /\ accepted[j].gsiUpdates[1].kind = kind } }

\* the accepted requests that carry an index action
IndexCalls == { i \in 1 .. Len(accepted) : accepted[i].gsiUpdates # <<>> }

\* a describe answer that means "not yet" to a wait for ACTIVE
NotYetActive(resp) == resp = NotFound \/ resp \in {"CREATING", "UPDATING", "DELETING"}

PermanentErrors == {Validation, Internal}

(***************************************************************************)
(* C1: whenever Create returns an error, the table does not exist remotely *)
(* as a result of that invocation.                                         *)
(***************************************************************************)
C1_CreateTransactional ==
    (op = "Create" /\ pc = "done" /\ ret.err # "")
        => ~(created /\ tblStatus # "ABSENT")

(***************************************************************************)
(* C2: after a successful Update whose old state describes the remote      *)
(* table before the call, the remote table's capacity and its indexes (by  *)
(* name, with their capacities) equal new's (a table that an earlier       *)
(* Delete has meanwhile removed set aside).                                *)
(***************************************************************************)
C2_UpdateReachesNew ==
    (op = "Update" /\ pc = "done" /\ ret.err = "" /\ old = cfg0
       /\ tblStatus # "ABSENT")
        => tblCfg = new

(***************************************************************************)
(* C3: an UpdateTable call is submitted after an earlier accepted one of   *)
(* the same invocation only once a describe made in between has seen       *)
(* ACTIVE, and every request carries exactly one operation: the throughput *)
(* or a single index action.                                               *)
(***************************************************************************)
C3_SerializedUpdates ==
    [][ (nUpdate' = nUpdate + 1)
          => /\ accepted # <<>> => activeSeen
             /\ Len(req.thru) + Len(req.gsiUpdates) = 1 ]_vars

C3_Witness ==
    /\ op = "Update" /\ pc = "upd_call"
    /\ Len(accepted) >= 2 /\ activeSeen /\ nUpdate > Len(accepted)

(***************************************************************************)
(* C4: the accepted UpdateTable calls of one Update come in the order      *)
(* throughput, index creations, index capacity updates, index deletions,   *)
(* no step twice; a successful Update made exactly one call per step of    *)
(* its diff, so adding one index and removing another makes exactly two    *)
(* index calls, the create before the delete, and each accepted call was   *)
(* followed by a describe that saw ACTIVE.                                 *)
(***************************************************************************)
C4_FixedOrder ==
    op = "Update" =>
      /\ \A i, j \in 1 .. Len(accepted) :
           i < j => /\ StepRank(accepted[i]) <= StepRank(accepted[j])
                    /\ accepted[i] # accepted[j]
                    /\ StepRank(accepted[j]) # 0
      /\ (pc = "done" /\ ret.err = "") =>
           /\ (\E i \in 1 .. Len(accepted) : accepted[i] = ThroughputRequest(new))
                <=> (old.rcap # new.rcap \/ old.wcap # new.wcap)
           /\ AcceptedNames("Create") = DiffAdds(old.gsis, new.gsis)
           /\ AcceptedNames("Update") = DiffUpdates(old.gsis, new.gsis)
           /\ AcceptedNames("Delete") = DiffDeletes(old.gsis, new.gsis)
           /\ accepted # <<>> => activeSeen
           /\ ( /\ Cardinality(DiffAdds(old.gsis, new.gsis)) = 1
                /\ Cardinality(DiffDeletes(old.gsis, new.gsis)) = 1 )
                => /\ Cardinality(IndexCalls) = 2
                   /\ \E i, j \in IndexCalls :
                        /\ i < j
                        /\ accepted[i].gsiUpdates[1].kind = "Create"
                        /\ accepted[j].gsiUpdates[1].kind = "Delete"

C4_Witness ==
    /\ op = "Update" /\ pc = "done" /\ ret.err = ""
    /\ Cardinality(DiffAdds(old.gsis, new.gsis)) = 1
    /\ Cardinality(DiffDeletes(old.gsis, new.gsis)) = 1
    /\ Len(accepted) = 3

(***************************************************************************)
(* C5: a Get whose describe call reports not-found returns the absent      *)
(* outcome, nil state and nil error.                                       *)
(***************************************************************************)
C5_GetNotFoundIsAbsent ==
    (op = "Get" /\ pc = "done" /\ last = [api |-> "DescribeTable", resp |-> NotFound])
        => (ret.err = "" /\ ~ret.found)

(***************************************************************************)
(* C6: once Delete(id) returned success, a later Get(id) with no Create in *)
(* between reports absence and no error (a describe call that itself      *)
(* failed with an internal error set aside).                               *)
(***************************************************************************)
C6_GetAfterDeleteAbsent ==
    (op = "Get" /\ pc = "done" /\ deleted /\ id = TableArn /\ last.resp # Internal)
        => (ret.err = "" /\ ~ret.found)

(***************************************************************************)
(* C7: an UpdateTable call that fails with an error other than not-found   *)
(* or in-use ends the Update at once with that error: no further call, and *)
(* the remote table keeps the effect of the steps accepted before.         *)
(***************************************************************************)
C7_AbortOnPermanentError ==
    [][ (nUpdate' = nUpdate + 1 /\ last'.resp \notin {"ok", NotFound, InUse})
          => /\ pc' = "done"
             /\ ret' = ErrorResult(last'.resp)
             /\ accepted' = accepted
             /\ tblStatus' = tblStatus
             /\ tblCfg' = tblCfg
             /\ accepted # <<>> => tblCfg' = ApplyAll(cfg0, accepted) ]_vars

C7_Witness ==
    /\ op = "Update" /\ pc = "done"
    /\ last.api = "UpdateTable" /\ last.resp \in PermanentErrors
    /\ ret.err = last.resp
    /\ accepted # <<>> /\ tblCfg = ApplyAll(cfg0, accepted) /\ tblCfg # cfg0

(***************************************************************************)
(* C8: re-invoking an Update that failed part-way, with the same id, old,  *)
(* new and changed fields, succeeds and leaves the remote table as new     *)
(* describes (remote faults and timeouts of the second run set aside).     *)
(***************************************************************************)
C8_ReinvokeCompletes ==
    (op = "Update" /\ pc = "done" /\ reinvoked
       /\ ret.err \notin {Internal, ErrNotActive, ErrCouldNotUpdate})
        => (ret.err = "" /\ tblCfg = new)

(***************************************************************************)
(* C9: Create calls CreateTable exactly once and never again; when that    *)
(* call fails Create returns its error with an empty identifier and has    *)
(* made no describe call.                                                  *)
(***************************************************************************)
C9_CreateOnce ==
    op = "Create" =>
      /\ nCreate = (IF pc = "create_call" THEN 0 ELSE 1)
      /\ (nCreate = 1 /\ ~created) =>
           /\ pc = "done"
           /\ last.api = "CreateTable"
           /\ ret = ErrorResult(last.resp)
           /\ ret.err # ""
           /\ descLog = <<>>

C9_Witness ==
    /\ op = "Create" /\ pc = "done" /\ nCreate = 1 /\ ~created
    /\ ret.err = Internal /\ ret.id = ""

(***************************************************************************)
(* C10: after an accepted CreateTable, Create returns the identifier of    *)
(* the create response exactly when a describe has answered ACTIVE; every  *)
(* answer before it was not-found or a non-ACTIVE status and was followed  *)
(* by another describe, so k such answers and then ACTIVE make k+1 calls.  *)
(***************************************************************************)
C10_CreateWaitsForActive ==
    (op = "Create" /\ created) =>
      /\ \A i \in 1 .. Len(descLog) - 1 : NotYetActive(descLog[i])
      /\ pc = "wait" =>
           /\ \A i \in 1 .. Len(descLog) : NotYetActive(descLog[i])
           /\ Len(descLog) < LongTries
      /\ (pc = "done" /\ ret.err = "") =>
           /\ descLog # <<>>
           /\ descLog[Len(descLog)] = "ACTIVE"
           /\ ret.id = TableArn
      /\ (descLog # <<>> /\ descLog[Len(descLog)] = "ACTIVE") =>
           /\ pc = "done"
           /\ ret = [NoResult EXCEPT !.id = TableArn]

C10_Witness ==
    /\ op = "Create" /\ pc = "done" /\ ret.err = "" /\ ret.id = TableArn
    /\ descLog = << NotFound, "ACTIVE" >>

\* the changed fields of the Update in progress are capacities only
OnlyCapacityChanged ==
    /\ ChangedFields(old, new) # {}
    /\ ChangedFields(old, new) \subseteq {"readCapacity", "writeCapacity"}

\* rq carries the new provisioned throughput and nothing else
OnlyNewThroughput(rq) ==
    /\ rq.thru = << [r |-> new.rcap, w |-> new.wcap] >>
    /\ rq.gsiUpdates = <<>>

(***************************************************************************)
(* C11 as stated: an Update whose changed fields are capacities only       *)
(* issues exactly one UpdateTable call, which carries only the new         *)
(* provisioned throughput, and no index call.                              *)
(***************************************************************************)
C11_ExactlyOneCall ==
    (op = "Update" /\ OnlyCapacityChanged) =>
      /\ nUpdate <= 1
      /\ nUpdate = 1 => OnlyNewThroughput(req)
      /\ (pc = "done" /\ ret.err = "") => nUpdate = 1

(***************************************************************************)
(* C11 amended: every UpdateTable call of an Update whose changed fields   *)
(* are capacities only carries only the new provisioned throughput, no     *)
(* index action; the calls are the attempts of one retry loop, at most one *)
(* of them is accepted, and exactly one when the Update succeeds.          *)
(***************************************************************************)
C11_OneAcceptedThroughputCall ==
    (op = "Update" /\ OnlyCapacityChanged) =>
      /\ nUpdate <= ShortTries
      /\ (nUpdate >= 1 \/ pc = "upd_call") => OnlyNewThroughput(req)
      /\ Len(accepted) <= 1
      /\ \A i \in 1 .. Len(accepted) : OnlyNewThroughput(accepted[i])
      /\ (pc = "done" /\ ret.err = "") => Len(accepted) = 1

C11_Witness ==
    /\ op = "Update" /\ pc = "done" /\ ret.err = "" /\ OnlyCapacityChanged
    /\ nUpdate = 2
    /\ accepted = << [thru |-> << [r |-> new.rcap, w |-> new.wcap] >>,
                      gsiUpdates |-> <<>>] >>

\* Update has computed its diff and made no call yet
DiffJustComputed ==
    /\ op = "Update" /\ pc = "upd_next" /\ nUpdate = 0 /\ last = NoCall
    /\ Changed("globalSecondaryIndexes")

(***************************************************************************)
(* C12: for every old and new index set, the additions, modifications and  *)
(* removals Update's diff computes are pairwise disjoint by index name; a  *)
(* name only in new is an addition, a name only in old is a removal, and   *)
(* an index in both sets with the same read and write capacity is in none  *)
(* of the three.                                                           *)
(***************************************************************************)
C12_DiffPartitions ==
    DiffJustComputed =>
      /\ pendAdds \cap pendUpds = {}
      /\ pendAdds \cap pendDels = {}
      /\ pendUpds \cap pendDels = {}
      /\ \A k \in (DOMAIN new.gsis) \ (DOMAIN old.gsis) : k \in pendAdds
      /\ \A k \in (DOMAIN old.gsis) \ (DOMAIN new.gsis) : k \in pendDels
      /\ \A k \in (DOMAIN old.gsis) \cap (DOMAIN new.gsis) :
           /\ k \notin pendAdds \cup pendDels
           /\ old.gsis[k] = new.gsis[k] => k \notin pendUpds

C12_Witness ==
    /\ DiffJustComputed
    /\ pendAdds = {"b"} /\ pendDels = {"a"} /\ pendUpds = {}
    /\ new.gsis["b"] = [r |-> 1, w |-> 55296]

(***************************************************************************)
(* C13: a Delete whose first DeleteTable call is answered not-found makes  *)
(* no second one and goes on to the wait for absence; when the first       *)
(* describe of that wait answers not-found too, Delete returns nil after   *)
(* that one describe.                                                      *)
(***************************************************************************)
C13_DeleteAbsentSucceeds ==
    (op = "Delete" /\ delLog # <<>> /\ delLog[1] = NotFound) =>
      /\ delLog = << NotFound >>
      /\ pc \in {"wait", "done"}
      /\ waitFor = "delete"
      /\ pc = "done" => descLog # <<>>
      /\ (descLog # <<>> /\ descLog[1] = NotFound) =>
           /\ descLog = << NotFound >>
           /\ pc = "done"
           /\ ret = NoResult

C13_Witness ==
    /\ op = "Delete" /\ pc = "done" /\ ret = NoResult
    /\ delLog = << NotFound >> /\ descLog = << NotFound >>

(***************************************************************************)
(* C14: a DeleteTable call answered in-use is followed by another attempt  *)
(* while the budget lasts and is never returned as Delete's error; a       *)
(* DeleteTable call that fails with any error other than not-found or      *)
(* in-use ends Delete at once with that error, with no further DeleteTable *)
(* call and no describe.                                                   *)
(***************************************************************************)
C14_DeleteErrorHandling ==
    [][ (Len(delLog') = Len(delLog) + 1) =>
          /\ (last'.resp = InUse) =>
                /\ ret'.err # InUse
                /\ tries + 1 < LongTries => (pc' = "del_call" /\ ret' = ret)
          /\ (last'.resp \notin {"ok", NotFound, InUse}) =>
                /\ pc' = "done"
                /\ ret' = ErrorResult(last'.resp)
                /\ descLog' = <<>> ]_vars


C14_Witness ==
    /\ op = "Delete" /\ pc = "done"
    /\ delLog = << InUse, Internal >> /\ ret.err = Internal /\ descLog = <<>>

\* every DeleteTable call of this invocation was answered in-use
AllInUse == \A i \in 1 .. Len(delLog) : delLog[i] = InUse

(***************************************************************************)
(* C15 as stated: when every DeleteTable attempt answers in-use, Delete    *)
(* stops after exactly the short profile's attempt count, returns the      *)
(* 'could not be deleted' error and never starts the wait for absence.     *)
(***************************************************************************)
C15_ShortProfile ==
    op = "Delete" =>
      /\ (pc = "done" /\ ret.err = ErrCouldNotDelete) =>
           (Len(delLog) = ShortTries /\ AllInUse /\ descLog = <<>>)
      /\ (AllInUse /\ Len(delLog) = ShortTries) =>
           (pc = "done" /\ ret.err = ErrCouldNotDelete)

(***************************************************************************)
(* C15 amended: Delete's DeleteTable call is retried under the long retry  *)
(* profile: when every attempt answers in-use, Delete stops after exactly  *)
(* the long profile's attempt count, returns the 'could not be deleted'    *)
(* error, not the wait's timeout error, and never starts the wait.         *)
(***************************************************************************)
C15_LongProfile ==
    op = "Delete" =>
      /\ Len(delLog) <= LongTries
      /\ (pc = "done" /\ ret.err = ErrCouldNotDelete) =>
           (Len(delLog) = LongTries /\ AllInUse /\ descLog = <<>>)
      /\ (AllInUse /\ Len(delLog) = LongTries) =>
           (pc = "done" /\ ret.err = ErrCouldNotDelete /\ descLog = <<>>)
      /\ (AllInUse /\ delLog # <<>> /\ Len(delLog) < LongTries) =>
           pc = "del_call"

C15_Witness ==
    /\ op = "Delete" /\ pc = "done" /\ ret.err = ErrCouldNotDelete
    /\ Len(delLog) = LongTries /\ AllInUse /\ descLog = <<>>

\* a describe answer that found the table, in whatever status
TableFound(resp) == resp \in {"CREATING", "ACTIVE", "UPDATING", "DELETING"}

(***************************************************************************)
(* C16: Delete returns success only after a describe, made after the       *)
(* DeleteTable call that was accepted, has answered not-found; a describe  *)
(* that finds the table, in any status, is followed by another describe    *)
(* until the long budget is used up.                                       *)
(***************************************************************************)
C16_DeleteWaitsForAbsence ==
    op = "Delete" =>
      /\ (pc = "done" /\ ret.err = "") =>
           /\ delLog # <<>> /\ delLog[Len(delLog)] \in {"ok", NotFound}
           /\ descLog # <<>> /\ descLog[Len(descLog)] = NotFound
      /\ descLog # <<>> => (delLog # <<>> /\ delLog[Len(delLog)] \in {"ok", NotFound})
      /\ \A i \in 1 .. Len(descLog) - 1 : TableFound(descLog[i])
      /\ (descLog # <<>> /\ TableFound(descLog[Len(descLog)])) =>
           \/ pc = "wait" /\ Len(descLog) < LongTries
           \/ pc = "done" /\ Len(descLog) = LongTries /\ ret.err = ErrNotDeleted

C16_Witness ==
    /\ op = "Delete" /\ pc = "done" /\ ret.err = ""
    /\ delLog = << "ok" >> /\ descLog = << "DELETING", "DELETING", NotFound >>

\* context.Canceled, the error of a cancelled context.Context
ErrCanceled == "context canceled"

\* this step is an attempt of the retry loop in progress
RetryAttempt ==
    /\ pc \in {"wait", "upd_call", "del_call"}
    /\ ~(pc' = pc /\ tries' = tries)

(***************************************************************************)
(* C17: once the caller has cancelled the context of a Create, Update or   *)
(* Delete in progress, its retry loops (around UpdateTable, around         *)
(* DeleteTable, the wait for the table state) make no further attempt: the *)
(* operation returns a cancellation error instead.                         *)
(***************************************************************************)
C17_WaitsObserveCancel ==
    [][ (cancelled /\ RetryAttempt) =>
          (pc' = "done" /\ ret'.err = ErrCanceled /\ last' = last) ]_vars

\* the answer a wait for `exist` takes for "not done, no error"
NotDoneAnswer(exist, resp) ==
    IF exist THEN resp = NotFound \/ (TableFound(resp) /\ resp # "ACTIVE")
    ELSE TableFound(resp)

WaitTimeouts == {ErrNotActive, ErrNotDeleted}

(***************************************************************************)
(* C18: a wait fails with its timeout error exactly when the probe has     *)
(* answered 'not done, no error' as many times as the long profile has     *)
(* attempts: not after fewer answers, and no probe is made after that      *)
(* many.                                                                   *)
(***************************************************************************)
C18_TimeoutAfterBudget ==
    /\ [](pc = "wait" => tries < LongTries)
    /\ []((op \in {"Create", "Delete"} /\ pc = "done" /\ ret.err \in WaitTimeouts)
            => /\ Len(descLog) = LongTries
               /\ \A i \in 1 .. Len(descLog) : NotDoneAnswer(WaitExist, descLog[i]))
    /\ [][ (pc = "wait" /\ ~(pc' = pc /\ tries' = tries)) =>
              /\ NotDoneAnswer(WaitExist, last'.resp) =>
                    IF tries + 1 = LongTries
                    THEN /\ pc' = "done"
                         /\ ret'.err = (IF WaitExist THEN ErrNotActive ELSE ErrNotDeleted)
                    ELSE pc' = "wait" /\ tries' = tries + 1 /\ ret' = ret
              /\ (pc' = "done" /\ ret'.err \in WaitTimeouts) =>
                    (tries + 1 = LongTries /\ NotDoneAnswer(WaitExist, last'.resp)) ]_vars

C18_Witness ==
    /\ op = "Create" /\ pc = "done" /\ ret.err = ErrNotActive
    /\ Len(descLog) = LongTries
    /\ \A i \in 1 .. Len(descLog) : descLog[i] = "CREATING"

\* a DescribeTable answer that the wait's probe returns as its error
ProbeError(resp) == resp \in RemoteErrors \ {NotFound}

(***************************************************************************)
(* C19: when the probe of a wait returns an error on its n-th call, after  *)
(* n-1 'not done' answers, the wait stops there: the operation returns     *)
(* that same error and no probe is made after it.                          *)
(***************************************************************************)
C19_ProbeErrorStopsWait ==
    /\ []((op \in {"Create", "Delete"} /\ descLog # <<>>) =>
            /\ \A i \in 1 .. Len(descLog) - 1 :
                 NotDoneAnswer(WaitExist, descLog[i])
            /\ ProbeError(descLog[Len(descLog)]) =>
                 (pc = "done" /\ ret = ErrorResult(descLog[Len(descLog)])))
    /\ [][ (pc = "wait" /\ ~(pc' = pc /\ tries' = tries)
             /\ ProbeError(last'.resp)) =>
              (pc' = "done" /\ ret' = ErrorResult(last'.resp)) ]_vars

C19_Witness ==
    /\ op = "Create" /\ pc = "done" /\ ret = ErrorResult(Internal)
    /\ descLog = << "CREATING", Internal >>

\* the rules a description breaks, each as the field it is about and the
\* position of the attribute or index (0 for the table itself)
RuleViolations(obj) ==
    LET gsis == IF obj.gsis = <<>> THEN <<>> ELSE obj.gsis[1]
    IN  (IF obj.name # <<>> /\ obj.name[1] \notin 3 .. 255
         THEN { << "Table", "name", 0 >> } ELSE {})
        \cup (IF obj.rcap >= 1 THEN {} ELSE { << "Table", "readCapacity", 0 >> })
        \cup (IF obj.wcap >= 1 THEN {} ELSE { << "Table", "writeCapacity", 0 >> })
        \cup { << "Attribute", "name", i >> :
                 i \in { j \in 1 .. Len(obj.attrs) : obj.attrs[j].name \notin 1 .. 255 } }
        \cup { << "Attribute", "type", i >> :
                 i \in { j \in 1 .. Len(obj.attrs) :
                           obj.attrs[j].type \notin {"S", "N", "B"} } }
        \cup (IF Len(gsis) <= 5 THEN {}
              ELSE { << "Table", "globalSecondaryIndexes", 0 >> })
        \cup { << "GlobalSecondaryIndex", "indexName", i >> :
                 i \in { j \in 1 .. Len(gsis) : gsis[j].name \notin 3 .. 255 } }
        \cup { << "GlobalSecondaryIndex", "readCapacity", i >> :
                 i \in { j \in 1 .. Len(gsis) : ~(gsis[j].r >= 1) } }
        \cup { << "GlobalSecondaryIndex", "writeCapacity", i >> :
                 i \in { j \in 1 .. Len(gsis) : ~(gsis[j].w >= 1) } }

\* the fields a field error can be about
CheckedFields ==
    { << "Table", "name" >>, << "Table", "readCapacity" >>,
      << "Table", "writeCapacity" >>, << "Table", "globalSecondaryIndexes" >>,
      << "Attribute", "name" >>, << "Attribute", "type" >>,
      << "GlobalSecondaryIndex", "indexName" >>,
      << "GlobalSecondaryIndex", "readCapacity" >>,
      << "GlobalSecondaryIndex", "writeCapacity" >> }

(***************************************************************************)
(* C20: for every description, Check returns as many field errors as the   *)
(* description breaks rules, one about each broken rule's field and none   *)
(* left out after the first; the list is empty exactly when no rule is     *)
(* broken; Check returns a nil error and makes no remote call.             *)
(***************************************************************************)
C20_CheckOnePerViolation ==
    (op = "Check" /\ pc = "done") =>
      /\ Len(failures) = Cardinality(RuleViolations(chkObj))
      /\ \A f \in CheckedFields :
           Cardinality({ i \in 1 .. Len(failures) :
                          << failures[i].ty, failures[i].field >> = f })
             = Cardinality({ v \in RuleViolations(chkObj) : << v[1], v[2] >> = f })
      /\ (failures = <<>>) <=> (RuleViolations(chkObj) = {})
      /\ ret = NoResult
      /\ last = NoCall /\ tblStatus = "ABSENT" /\ tblCfg = NoTable

C20_Witness ==
    /\ op = "Check" /\ pc = "done"
    /\ chkObj.name = << 2 >> /\ chkObj.rcap = 0 /\ chkObj.wcap = 1
    /\ chkObj.attrs = <<>>
    /\ chkObj.gsis # <<>> /\ Len(chkObj.gsis[1]) = 6
    /\ chkObj.gsis[1][1].name = 256 /\ chkObj.gsis[1][1].w = 0
    /\ Len(failures) = 5

\* the command the documented workflow has at place i, for these options
DocumentedAt(i, args) ==
    LET n == Len(options.Dependencies)
        m == Cardinality(DOMAIN options.Config)
    IN  IF i <= n THEN args = << "yarn", "link", options.Dependencies[i] >>
        ELSE IF i = n + 1 THEN args = << "lumijs", "--verbose" >>
        ELSE IF i = n + 2 THEN args = << "lumi", "env", "init", "integrationtesting" >>
        ELSE IF i <= n + 2 + m
             THEN \E k \in DOMAIN options.Config :
                    args = << "lumi", "config", k, options.Config[k] >>
        ELSE IF i = n + m + 3 THEN args = << "lumi", "plan" >>
        ELSE IF i = n + m + 4 THEN args = << "lumi", "deploy" >>
        ELSE IF i = n + m + 5 THEN args = << "lumi", "plan" >>
        ELSE IF i = n + m + 6 THEN args = << "lumi", "deploy" >>
        ELSE IF i = n + m + 7 THEN args = << "lumi", "destroy", "--yes" >>
        ELSE IF i = n + m + 8
             THEN args = << "lumi", "env", "rm", "--yes", "integrationtesting" >>
        ELSE FALSE

\* the number of commands of the documented workflow, for these options
DocumentedLength ==
    Len(options.Dependencies) + Cardinality(DOMAIN options.Config) + 8

(***************************************************************************)
(* C21: the commands LumiProgramTest has run are, at every moment, the     *)
(* first ones of the documented workflow in its order (one yarn link per   *)
(* dependency in the list's order, lumijs --verbose, lumi env init, one    *)
(* lumi config per entry, plan, deploy, plan, deploy, destroy --yes, env   *)
(* rm --yes), and a test that ends without failure has run all of them     *)
(* and every one returned a success exit code.                             *)
(***************************************************************************)
C21_WorkflowOrder ==
    tpc # "idle" =>
      /\ \A i \in 1 .. Len(cmdLog) : DocumentedAt(i, cmdLog[i])
      /\ \A i, j \in 1 .. Len(cmdLog) :
           (i < j /\ cmdLog[i][2] = "config" /\ cmdLog[j][2] = "config")
             => cmdLog[i] # cmdLog[j]
      /\ (tpc = "end" /\ ~tFailed) =>
           (Len(cmdLog) = DocumentedLength /\ ~exitFailed)
      /\ exitFailed => tFailed

C21_Witness ==
    /\ tpc = "end" /\ ~tFailed /\ ~exitFailed
    /\ Len(options.Dependencies) = 2 /\ Cardinality(DOMAIN options.Config) = 2
    /\ Len(cmdLog) = 12

\* the accepted requests that update the capacity of index k
UpdateIndexCalls(k) ==
    { i \in 1 .. Len(accepted) :
        /\ accepted[i].gsiUpdates # <<>>
        /\ accepted[i].gsiUpdates[1].kind = "Update"
        /\ accepted[i].gsiUpdates[1].idx = k }

\* the index names in both sets whose entries differ in a capacity
CapacityDiffers ==
    { k \in (DOMAIN old.gsis) \cap (DOMAIN new.gsis) :
        old.gsis[k].r # new.gsis[k].r \/ old.gsis[k].w # new.gsis[k].w }

(***************************************************************************)
(* C22: for every index name in both the old and the new set whose entries *)
(* differ in read or write capacity, the diff Update computes holds the    *)
(* index among its modifications, and an Update that succeeds has had      *)
(* exactly one update-index-capacity call for it accepted.                 *)
(***************************************************************************)
C22_CapacityChangeIsModification ==
    /\ DiffJustComputed => CapacityDiffers \subseteq pendUpds
    /\ (op = "Update" /\ pc = "done" /\ ret.err = "")
         => \A k \in CapacityDiffers : Cardinality(UpdateIndexCalls(k)) = 1

\* the answers updateTable absorbs
Absorbed == {NotFound, InUse}

(***************************************************************************)
(* C23: an UpdateTable call of Update answered not-found or in-use is not  *)
(* returned as Update's error: while the budget lasts the same request is  *)
(* attempted again, and the attempt that exhausts the budget ends Update   *)
(* with the 'could not be updated' error; that error is returned only      *)
(* then, after every attempt of the budget was answered in one of these    *)
(* two ways, and Update makes no UpdateTable call afterwards although      *)
(* steps of its sequence may be left.                                      *)
(***************************************************************************)
C23_UpdateAbsorbsInUse ==
    [][ /\ (nUpdate' = nUpdate + 1) =>
          /\ (last'.resp \in Absorbed) =>
               /\ ret'.err \notin Absorbed
               /\ IF tries + 1 < UpdateBudget
                  THEN /\ pc' = "upd_call" /\ tries' = tries + 1
                       /\ req' = req /\ ret' = ret
                  ELSE /\ pc' = "done"
                       /\ ret' = ErrorResult(ErrCouldNotUpdate)
          /\ (tries' = tries + 1) => last'.resp \in Absorbed
          /\ (ret'.err = ErrCouldNotUpdate) =>
               (last'.resp \in Absorbed /\ tries + 1 = UpdateBudget)
        /\ (op = "Update" /\ pc = "done" /\ ret.err = ErrCouldNotUpdate) =>
             \/ op' = "idle"
             \/ pc' = "done" /\ nUpdate' = nUpdate /\ accepted' = accepted ]_vars

C23_Witness ==
    /\ op = "Update" /\ pc = "done" /\ ret = ErrorResult(ErrCouldNotUpdate)
    /\ nUpdate = UpdateBudget /\ last = [api |-> "UpdateTable", resp |-> InUse]
    /\ accepted = <<>>
    /\ pendAdds # {} /\ pendDels # {}

\* this step is the describe that uses up the budget of a wait
WaitExhausted ==
    /\ pc = "wait" /\ tries + 1 = LongTries
    /\ pc' = "done" /\ last'.api = "DescribeTable"
    /\ NotDoneAnswer(WaitExist, last'.resp)

\* the error e is a timeout error that names the condition `word`
NamesCondition(e, word) == e = "did not become " \o word

(***************************************************************************)
(* C24 as stated: when a wait exhausts its budget the operation fails with *)
(* a timeout error that is no remote error and names the condition         *)
(* expected: "active" in Create and Update, "absent" in Delete.            *)
(***************************************************************************)
C24_NamesAbsent ==
    [][ WaitExhausted =>
          /\ ret'.err \notin RemoteErrors
          /\ NamesCondition(ret'.err, IF op = "Delete" THEN "absent" ELSE "active")
      ]_vars

(***************************************************************************)
(* C24 amended: when a wait exhausts its budget the operation fails with a *)
(* timeout error that is no remote error and none of the provider's other  *)
(* errors, and that names the condition expected: "active" in Create and   *)
(* Update, "deleted" in Delete.                                            *)
(***************************************************************************)
C24_NamesDeleted ==
    [][ WaitExhausted =>
          /\ ret'.err \notin RemoteErrors
          /\ ret'.err \notin {"", ErrParse, ErrCouldNotUpdate, ErrCouldNotDelete}
          /\ NamesCondition(ret'.err, IF op = "Delete" THEN "deleted" ELSE "active")
          /\ ~NamesCondition(ret'.err, IF op = "Delete" THEN "active" ELSE "deleted")
      ]_vars

C24_Witness ==
    /\ op = "Delete" /\ pc = "done" /\ ret = ErrorResult("did not become deleted")
    /\ delLog = << "ok" >> /\ Len(descLog) = LongTries
    /\ \A i \in 1 .. Len(descLog) : descLog[i] = "DELETING"

====
